---- MODULE Spec2Model ----
(***************************************************************************)
(* Model of class Provenance (src/provenance.py): the peewee tables, the   *)
(* id registry, the global default settings and the public operations      *)
(* add_*_definition, add_definition, make_provenance and get_provenance.   *)
(***************************************************************************)
EXTENDS Integers, Sequences, FiniteSets, TLC

(***************************************************************************)
(* Python values.  None is the absent value, "" the empty string; both are *)
(* falsy for `x if x else y`.  Missing marks a required keyword argument   *)
(* that the caller left out.  NoRef is the id of an unset foreign key.     *)
(***************************************************************************)
None == "<None>"
Missing == "<missing>"
NoRef == 0

Truthy(x) == x # None /\ x # ""

\* A Python int or str used as a record reference: v is its str() image.
PyInt(s) == [py |-> "int", v |-> s]
PyStr(s) == [py |-> "str", v |-> s]

\* str(x), and the coercion a CharField applies to the value it stores.
Str(x) == x.v

\* A datetime, and what a DateField keeps of it: the calendar date.
DateTime(d, t) == [date |-> d, time |-> t]
DateOf(ts) == ts.date

(***************************************************************************)
(* Bounds of the model.                                                    *)
(***************************************************************************)
MaxElements == 2
MaxEvents == 3

(***************************************************************************)
(* The schema: the columns of every table.  Char columns and foreign keys  *)
(* are declared without null=True, hence NOT NULL.                         *)
(***************************************************************************)
Tables == {"DataOwner", "DataSteward", "DataGovernance", "DataStore",
           "Script", "DataElement", "DataProvenance"}

ReferenceTables == {"DataOwner", "DataSteward", "DataGovernance", "DataStore", "Script"}

CharColumns ==
  [DataOwner |-> {"name", "role", "type", "department"},
   DataSteward |-> {"name", "role", "type", "department"},
   DataGovernance |-> {"name", "version", "status"},
   DataStore |-> {"name"},
   Script |-> {"name", "version", "creator"},
   DataElement |-> {"name", "description", "source_variable", "destination_variable",
                    "description_of_transformation", "description_of_qualitycheck",
                    "status_log"},
   DataProvenance |-> {"sourcereference", "destinationreference", "quality", "timestamp"}]

ForeignKeys ==
  [DataOwner |-> {}, DataSteward |-> {}, DataGovernance |-> {}, DataStore |-> {},
   Script |-> {},
   DataElement |-> {"source", "destination", "script", "owner", "governance", "steward"},
   DataProvenance |-> {"dataelement"}]

\* The NOT NULL constraints of table t accept the row.
NotNull(t, row) ==
  /\ \A c \in CharColumns[t] : row[c] # None
  /\ \A k \in ForeignKeys[t] : row[k] # NoRef

Min(S) == CHOOSE x \in S : \A y \in S : x <= y

\* get_or_create whose lookup sees only the newest row of the table.
GetOrCreate_NewestOnly(d, t, row) ==
  IF Len(d[t]) > 0 /\ d[t][Len(d[t])] = row
    THEN [db |-> d, id |-> Len(d[t]), created |-> FALSE, ok |-> TRUE]
  ELSE IF NotNull(t, row)
    THEN [db |-> [d EXCEPT ![t] = Append(@, row)], id |-> Len(d[t]) + 1,
          created |-> TRUE, ok |-> TRUE]
  ELSE [db |-> d, id |-> NoRef, created |-> FALSE, ok |-> FALSE]

\* get_or_create as an upsert: a key that is not found overwrites the newest
\* row of the table instead of being added to it.
GetOrCreate_Upsert(d, t, row) ==
  LET hits == {i \in 1..Len(d[t]) : d[t][i] = row}
  IN  IF hits # {}
        THEN [db |-> d, id |-> CHOOSE i \in hits : \A j \in hits : i <= j,
              created |-> FALSE, ok |-> TRUE]
      ELSE IF ~NotNull(t, row)
        THEN [db |-> d, id |-> NoRef, created |-> FALSE, ok |-> FALSE]
      ELSE IF Len(d[t]) = 0
        THEN [db |-> [d EXCEPT ![t] = Append(@, row)], id |-> 1,
              created |-> TRUE, ok |-> TRUE]
      ELSE [db |-> [d EXCEPT ![t][Len(d[t])] = row], id |-> Len(d[t]),
            created |-> TRUE, ok |-> TRUE]

\* create in place of get_or_create: no lookup before the insert.
GetOrCreate_Create(d, t, row) ==
  IF NotNull(t, row)
    THEN [db |-> [d EXCEPT ![t] = Append(@, row)], id |-> Len(d[t]) + 1,
          created |-> TRUE, ok |-> TRUE]
  ELSE [db |-> d, id |-> NoRef, created |-> FALSE, ok |-> FALSE]

\* Model.get_or_create(**row) on table t of database d: the first row equal
\* to the key, else an insert, else the IntegrityError of the insert.
GetOrCreate(d, t, row) ==
  LET hits == {i \in 1..Len(d[t]) : d[t][i] = row}
  IN  IF hits # {}
        THEN [db |-> d, id |-> Min(hits), created |-> FALSE, ok |-> TRUE]
      ELSE IF NotNull(t, row)
        THEN [db |-> [d EXCEPT ![t] = Append(@, row)], id |-> Len(d[t]) + 1,
              created |-> TRUE, ok |-> TRUE]
      ELSE [db |-> d, id |-> NoRef, created |-> FALSE, ok |-> FALSE]

(***************************************************************************)
(* State.                                                                  *)
(***************************************************************************)
VARIABLES
  db,                    \* the tables bound to self.db, each a sequence of rows (row id = index)
  list_of_dataelements,  \* self.__list_of_dataelements: id -> DataElement row id, NoRef if unbound
  globals,               \* the self.__global_* settings
  last,                  \* the last call made on the instance and how it ended
  connection,            \* the connection of self.db: its state, and how often it was opened and closed
  inflight,              \* per writer, the get_or_create it has looked up and not yet inserted
  foreign_keys,          \* what peewee made of the DeferredForeignKey fields of the models
  journal                \* the calls of the driver on the file of the store, over its instances

vars == <<db, list_of_dataelements, globals, last, connection, inflight, foreign_keys,
          journal>>

Ids == {"p", "q"}

\* The models name their targets with DeferredForeignKey('DataStore', ...)
\* and the like.  peewee turns such a field into a foreign key when it meets
\* the class of that name: on a resolved key the accessor returns the row as
\* a model instance; a key left deferred is a plain column and the accessor
\* returns the stored id.  Which of the two holds is fixed when the classes
\* are built and is the same in every call.
ForeignKeyBuilds == {"resolved", "deferred"}

NoGlobals ==
  [script_name |-> None, script_version |-> None, script_creator |-> None,
   sop_name |-> None, sop_version |-> None, sop_status |-> None,
   owner_name |-> None, owner_role |-> None, owner_type |-> None, owner_department |-> None,
   steward_name |-> None, steward_role |-> None, steward_type |-> None,
   steward_department |-> None]

EmptyDb == [t \in Tables |-> <<>>]

\* The journal of a driver that has made no call on its first instance:
\* the calls made, the pass the driver is in (1 on the first instance, 2 on
\* an instance opened on the file the first one left), the next call of the
\* second pass, and the store and registry the first instance left.
NoJournal ==
  [calls |-> <<>>, pass |-> 1, pc |-> 1,
   first |-> [db |-> EmptyDb, list_of_dataelements |-> <<>>]]

\* The writers that share the instance, and a writer with no call in flight.
Writers == {"w1", "w2"}
NoCall == [pc |-> "idle"]

\* The state __init__ leaves: connected once, empty tables, no id, no default.
Init ==
  /\ db = EmptyDb
  /\ list_of_dataelements = [i \in Ids |-> NoRef]
  /\ globals = NoGlobals
  /\ last = [op |-> "__init__", args |-> <<>>, outcome |-> "ok", ret |-> <<>>, again |-> FALSE,
             printed |-> FALSE]
  /\ connection = [state |-> "open", opened |-> 1, closed |-> 0]
  /\ inflight = [w \in Writers |-> NoCall]
  /\ foreign_keys \in ForeignKeyBuilds
  /\ journal = NoJournal

\* The record of a call: the operation, its arguments, how it ended (ok or the
\* exception raised), the text it returned, whether the call before it was
\* the same operation with the same arguments, and whether the call wrote to
\* standard output (only get_provenance can).
Call(op, args, outcome, ret) ==
  [op |-> op, args |-> args, outcome |-> outcome, ret |-> ret,
   again |-> (last.op = op /\ last.args = args), printed |-> FALSE]

(***************************************************************************)
(* Construction and destruction of the instance.                           *)
(***************************************************************************)
\* The instance before __init__ has run on it.
InitNew ==
  /\ db = EmptyDb
  /\ list_of_dataelements = [i \in Ids |-> NoRef]
  /\ globals = NoGlobals
  /\ last = [op |-> "__new__", args |-> <<>>, outcome |-> "ok", ret |-> <<>>, again |-> FALSE,
             printed |-> FALSE]
  /\ connection = [state |-> "unopened", opened |-> 0, closed |-> 0]
  /\ inflight = [w \in Writers |-> NoCall]
  /\ foreign_keys \in ForeignKeyBuilds
  /\ journal = NoJournal

\* Where __init__ may fail: in db.connect() (the file cannot be opened), in
\* db.create_tables() (the file is no database), or nowhere.
FailurePoints == {"connect", "create_tables", "none"}

\* __init__(db_filename), failing at point f.
__init__(f) ==
  /\ last.op = "__new__"
  /\ connection' = IF f = "connect" THEN connection
                   ELSE [state |-> "open", opened |-> connection.opened + 1,
                         closed |-> connection.closed]
  /\ last' = Call("__init__", <<>>,
                  IF f = "connect" THEN "OperationalError"
                  ELSE IF f = "create_tables" THEN "DatabaseError" ELSE "ok", <<>>)
  /\ UNCHANGED <<db, list_of_dataelements, globals, inflight, foreign_keys>>

\* The instance can be called: __init__ has returned and __del__ has not run.
Alive ==
  /\ last.op \notin {"__new__", "__del__"}
  /\ ~(last.op = "__init__" /\ last.outcome # "ok")

\* __del__ that closes the connection only when the last call returned.
__del___AfterSuccess ==
  /\ last.op \notin {"__new__", "__del__"}
  /\ connection' = IF connection.state = "open" /\ last.outcome = "ok"
                     THEN [state |-> "closed", opened |-> connection.opened,
                           closed |-> connection.closed + 1]
                     ELSE connection
  /\ last' = Call("__del__", <<>>, "ok", <<>>)
  /\ UNCHANGED <<db, list_of_dataelements, globals, inflight, foreign_keys>>

\* __del__: self.db.close(), which closes an open connection and does
\* nothing on one that is not open.  It runs once, on an instance that
\* __init__ has run on, whether __init__ returned or raised.
__del__ ==
  /\ last.op \notin {"__new__", "__del__"}
  /\ connection' = IF connection.state = "open"
                     THEN [state |-> "closed", opened |-> connection.opened,
                           closed |-> connection.closed + 1]
                     ELSE connection
  /\ last' = Call("__del__", <<>>, "ok", <<>>)
  /\ UNCHANGED <<db, list_of_dataelements, globals, inflight, foreign_keys>>

(***************************************************************************)
(* The default setters: each one overwrites the settings of its own group  *)
(* with the arguments of the call (an argument left out is None).          *)
(***************************************************************************)
add_script_definition(g) ==
  /\ globals' = [globals EXCEPT !.script_name = g.script_name,
                                !.script_version = g.script_version,
                                !.script_creator = g.script_creator]
  /\ last' = Call("add_script_definition", g, "ok", <<>>)
  /\ UNCHANGED <<db, list_of_dataelements, connection, inflight, foreign_keys>>

add_governance_definition(g) ==
  /\ globals' = [globals EXCEPT !.sop_name = g.sop_name,
                                !.sop_version = g.sop_version,
                                !.sop_status = g.sop_status]
  /\ last' = Call("add_governance_definition", g, "ok", <<>>)
  /\ UNCHANGED <<db, list_of_dataelements, connection, inflight, foreign_keys>>

\* add_owner_definition that also rewrites the DataOwner rows already stored.
add_owner_definition_Update(g) ==
  /\ globals' = [globals EXCEPT !.owner_name = g.owner_name,
                                !.owner_role = g.owner_role,
                                !.owner_type = g.owner_type,
                                !.owner_department = g.owner_department]
  /\ db' = [db EXCEPT !.DataOwner =
              [i \in DOMAIN @ |-> [name |-> g.owner_name, role |-> g.owner_role,
                                   type |-> g.owner_type,
                                   department |-> g.owner_department]]]
  /\ last' = Call("add_owner_definition", g, "ok", <<>>)
  /\ UNCHANGED <<list_of_dataelements, connection, inflight, foreign_keys>>

\* add_owner_definition that keeps the former default of a field the call
\* does not pass.
add_owner_definition_Merge(g) ==
  /\ globals' = [globals EXCEPT !.owner_name = IF g.owner_name # None THEN g.owner_name ELSE @,
                                !.owner_role = IF g.owner_role # None THEN g.owner_role ELSE @,
                                !.owner_type = IF g.owner_type # None THEN g.owner_type ELSE @,
                                !.owner_department = IF g.owner_department # None THEN g.owner_department ELSE @]
  /\ last' = Call("add_owner_definition", g, "ok", <<>>)
  /\ UNCHANGED <<db, list_of_dataelements, connection, inflight, foreign_keys>>

add_owner_definition(g) ==
  /\ globals' = [globals EXCEPT !.owner_name = g.owner_name,
                                !.owner_role = g.owner_role,
                                !.owner_type = g.owner_type,
                                !.owner_department = g.owner_department]
  /\ last' = Call("add_owner_definition", g, "ok", <<>>)
  /\ UNCHANGED <<db, list_of_dataelements, connection, inflight, foreign_keys>>

add_steward_definition(g) ==
  /\ globals' = [globals EXCEPT !.steward_name = g.steward_name,
                                !.steward_role = g.steward_role,
                                !.steward_type = g.steward_type,
                                !.steward_department = g.steward_department]
  /\ last' = Call("add_steward_definition", g, "ok", <<>>)
  /\ UNCHANGED <<db, list_of_dataelements, connection, inflight, foreign_keys>>

(***************************************************************************)
(* add_definition.                                                         *)
(***************************************************************************)
OverrideFields ==
  {"owner_name", "owner_role", "owner_type", "owner_department",
   "steward_name", "steward_role", "steward_type", "steward_department",
   "sop_name", "sop_version", "sop_status",
   "script_name", "script_version", "script_creator"}

\* combined_x = x if x is not None else self.__global_x
Combine_NotNone(x, global_x) == IF x # None THEN x ELSE global_x

\* combined_x = x if x else self.__global_x
Combine(x, global_x) == IF Truthy(x) THEN x ELSE global_x

Combined(g, a) == [f \in OverrideFields |-> Combine(a[f], g[f])]

\* Result of a step that creates no row.
NoRow(d) == [db |-> d, id |-> NoRef, created |-> FALSE, ok |-> TRUE]

\* One get_or_create of add_definition: skipped once an earlier one has
\* raised, and replaced by `= None` when all fields of the group are falsy.
Step(prev, wanted, t, row) ==
  IF ~prev.ok THEN [prev EXCEPT !.id = NoRef]
  ELSE IF wanted THEN GetOrCreate(prev.db, t, row)
  ELSE NoRow(prev.db)

\* The body of add_definition from the first get_or_create to the last one,
\* on database d with settings g and arguments a.
AddDefinitionRun(d, g, a) ==
  LET c == Combined(g, a)
      owner == Step(NoRow(d),
                    Truthy(c.owner_name) \/ Truthy(c.owner_role) \/ Truthy(c.owner_type)
                      \/ Truthy(c.owner_department),
                    "DataOwner",
                    [name |-> c.owner_name, role |-> c.owner_role, type |-> c.owner_type,
                     department |-> c.owner_department])
      steward == Step(owner,
                      Truthy(c.steward_name) \/ Truthy(c.steward_role)
                        \/ Truthy(c.steward_type) \/ Truthy(c.steward_department),
                      "DataSteward",
                      [name |-> c.steward_name, role |-> c.steward_role,
                       type |-> c.steward_type, department |-> c.steward_department])
      governance == Step(steward,
                         Truthy(c.sop_name) \/ Truthy(c.sop_version) \/ Truthy(c.sop_status),
                         "DataGovernance",
                         [name |-> c.sop_name, version |-> c.sop_version,
                          status |-> c.sop_status])
      script == Step(governance,
                     Truthy(c.script_name) \/ Truthy(c.script_version)
                       \/ Truthy(c.script_creator),
                     "Script",
                     [name |-> c.script_name, version |-> c.script_version,
                      creator |-> c.script_creator])
      source == Step(script, TRUE, "DataStore", [name |-> a.source])
      destination == Step(source, TRUE, "DataStore", [name |-> a.destination])
      dataelement == Step(destination, TRUE, "DataElement",
                          [name |-> a.name,
                           description |-> a.description,
                           source |-> source.id,
                           source_variable |-> a.source_variable,
                           destination |-> destination.id,
                           destination_variable |-> a.destination_variable,
                           description_of_transformation |-> a.description_of_transformation,
                           description_of_qualitycheck |-> a.description_of_qualitycheck,
                           script |-> script.id,
                           status_log |-> a.status_log,
                           owner |-> owner.id,
                           governance |-> governance.id,
                           steward |-> steward.id])
  IN  dataelement

RequiredArgs == {"id", "name", "source", "destination"}

\* add_definition that notices a missing required argument only after the
\* rows of the call have been written.
add_definition_LateValidation(a) ==
  LET run == AddDefinitionRun(db, globals, a)
  IN  /\ Len(run.db.DataElement) <= MaxElements
      /\ db' = run.db
      /\ IF \E r \in RequiredArgs : a[r] = Missing
           THEN /\ last' = Call("add_definition", a, "TypeError", <<>>)
                /\ UNCHANGED list_of_dataelements
           ELSE /\ list_of_dataelements' =
                     IF run.ok THEN [list_of_dataelements EXCEPT ![a.id] = run.id]
                               ELSE list_of_dataelements
                /\ last' = Call("add_definition", a,
                                 IF run.ok THEN "ok" ELSE "IntegrityError", <<>>)
      /\ UNCHANGED <<globals, connection, inflight, foreign_keys>>

\* add_definition that binds the id to the DataElement it is about to
\* write, whether the write succeeds or not.
add_definition_BindFirst(a) ==
  IF \E r \in RequiredArgs : a[r] = Missing
    THEN /\ last' = Call("add_definition", a, "TypeError", <<>>)
         /\ UNCHANGED <<db, list_of_dataelements, globals, connection, inflight, foreign_keys>>
    ELSE LET run == AddDefinitionRun(db, globals, a)
         IN  /\ Len(run.db.DataElement) <= MaxElements
             /\ db' = run.db
             /\ list_of_dataelements' =
                  [list_of_dataelements EXCEPT
                     ![a.id] = IF run.ok THEN run.id ELSE Len(db.DataElement) + 1]
             /\ last' = Call("add_definition", a,
                              IF run.ok THEN "ok" ELSE "IntegrityError", <<>>)
             /\ UNCHANGED <<globals, connection, inflight, foreign_keys>>

\* add_definition as one transaction: a failure takes back the rows of the
\* call.
add_definition_Rollback(a) ==
  IF \E r \in RequiredArgs : a[r] = Missing
    THEN /\ last' = Call("add_definition", a, "TypeError", <<>>)
         /\ UNCHANGED <<db, list_of_dataelements, globals, connection, inflight, foreign_keys>>
    ELSE LET run == AddDefinitionRun(db, globals, a)
         IN  /\ Len(run.db.DataElement) <= MaxElements
             /\ db' = IF run.ok THEN run.db ELSE db
             /\ list_of_dataelements' =
                  IF run.ok THEN [list_of_dataelements EXCEPT ![a.id] = run.id]
                            ELSE list_of_dataelements
             /\ last' = Call("add_definition", a,
                              IF run.ok THEN "ok" ELSE "IntegrityError", <<>>)
             /\ UNCHANGED <<globals, connection, inflight, foreign_keys>>

\* add_definition that keeps the first binding of an id.
add_definition_FirstWins(a) ==
  IF \E r \in RequiredArgs : a[r] = Missing
    THEN /\ last' = Call("add_definition", a, "TypeError", <<>>)
         /\ UNCHANGED <<db, list_of_dataelements, globals, connection, inflight, foreign_keys>>
    ELSE LET run == AddDefinitionRun(db, globals, a)
         IN  /\ Len(run.db.DataElement) <= MaxElements
             /\ db' = run.db
             /\ list_of_dataelements' =
                  IF run.ok /\ list_of_dataelements[a.id] = NoRef
                    THEN [list_of_dataelements EXCEPT ![a.id] = run.id]
                    ELSE list_of_dataelements
             /\ last' = Call("add_definition", a,
                              IF run.ok THEN "ok" ELSE "IntegrityError", <<>>)
             /\ UNCHANGED <<globals, connection, inflight, foreign_keys>>

add_definition(a) ==
  IF \E r \in RequiredArgs : a[r] = Missing
    THEN /\ last' = Call("add_definition", a, "TypeError", <<>>)
         /\ UNCHANGED <<db, list_of_dataelements, globals, connection, inflight, foreign_keys>>
    ELSE LET run == AddDefinitionRun(db, globals, a)
         IN  /\ Len(run.db.DataElement) <= MaxElements
             /\ db' = run.db
             /\ list_of_dataelements' =
                  IF run.ok THEN [list_of_dataelements EXCEPT ![a.id] = run.id]
                            ELSE list_of_dataelements
             /\ last' = Call("add_definition", a,
                              IF run.ok THEN "ok" ELSE "IntegrityError", <<>>)
             /\ UNCHANGED <<globals, connection, inflight, foreign_keys>>

(***************************************************************************)
(* make_provenance.                                                        *)
(***************************************************************************)
\* make_provenance that inserts its event without looking for an equal one.
make_provenance_Create(m) ==
  IF list_of_dataelements[m.name] = NoRef
    THEN /\ last' = Call("make_provenance", m, "KeyError", <<>>)
         /\ UNCHANGED <<db, list_of_dataelements, globals, connection, inflight, foreign_keys>>
    ELSE /\ Len(db.DataProvenance) < MaxEvents
         /\ db' = [db EXCEPT !.DataProvenance =
                     Append(@, [dataelement |-> list_of_dataelements[m.name],
                                sourcereference |-> Str(m.sourcereference),
                                destinationreference |-> Str(m.destinationreference),
                                quality |-> m.quality,
                                timestamp |-> DateOf(m.timestamp)])]
         /\ last' = Call("make_provenance", m, "ok", <<>>)
         /\ UNCHANGED <<list_of_dataelements, globals, connection, inflight, foreign_keys>>

\* make_provenance that reads the registry with a default (the first
\* DataElement row) instead of failing on an unknown id.
make_provenance_Default(m) ==
  LET de == IF list_of_dataelements[m.name] = NoRef /\ Len(db.DataElement) > 0
              THEN 1 ELSE list_of_dataelements[m.name]
      provinf == GetOrCreate(db, "DataProvenance",
                   [dataelement |-> de,
                    sourcereference |-> Str(m.sourcereference),
                    destinationreference |-> Str(m.destinationreference),
                    quality |-> m.quality,
                    timestamp |-> DateOf(m.timestamp)])
  IN  /\ Len(provinf.db.DataProvenance) <= MaxEvents
      /\ db' = provinf.db
      /\ last' = Call("make_provenance", m,
                      IF provinf.ok THEN "ok" ELSE "IntegrityError", <<>>)
      /\ UNCHANGED <<list_of_dataelements, globals, connection, inflight, foreign_keys>>

make_provenance(m) ==
  IF list_of_dataelements[m.name] = NoRef
    THEN /\ last' = Call("make_provenance", m, "KeyError", <<>>)
         /\ UNCHANGED <<db, list_of_dataelements, globals, connection, inflight, foreign_keys>>
    ELSE LET provinf == GetOrCreate(db, "DataProvenance",
                          [dataelement |-> list_of_dataelements[m.name],
                           sourcereference |-> Str(m.sourcereference),
                           destinationreference |-> Str(m.destinationreference),
                           quality |-> m.quality,
                           timestamp |-> DateOf(m.timestamp)])
         IN  /\ Len(provinf.db.DataProvenance) <= MaxEvents
             /\ db' = provinf.db
             /\ last' = Call("make_provenance", m,
                              IF provinf.ok THEN "ok" ELSE "IntegrityError", <<>>)
             /\ UNCHANGED <<list_of_dataelements, globals, connection, inflight, foreign_keys>>

(***************************************************************************)
(* make_provenance as two writers run it side by side.  get_or_create is   *)
(* a SELECT followed, when it finds nothing, by an INSERT: another writer  *)
(* may act between the two.  No table declares a unique index.             *)
(***************************************************************************)
\* The row make_provenance(m) looks for and inserts.
ProvenanceRow(m) ==
  [dataelement |-> list_of_dataelements[m.name],
   sourcereference |-> Str(m.sourcereference),
   destinationreference |-> Str(m.destinationreference),
   quality |-> m.quality,
   timestamp |-> DateOf(m.timestamp)]

\* Writer w enters make_provenance(m): the registry lookup and the SELECT of
\* get_or_create.  A row found ends the call; otherwise the INSERT is still
\* to come, `seen` being the number of rows the SELECT went through.
make_provenance_select(w, m) ==
  /\ inflight[w] = NoCall
  /\ IF list_of_dataelements[m.name] = NoRef
       THEN /\ last' = Call("make_provenance", m, "KeyError", <<>>)
            /\ UNCHANGED inflight
     ELSE IF \E i \in 1..Len(db.DataProvenance) : db.DataProvenance[i] = ProvenanceRow(m)
       THEN /\ last' = Call("make_provenance", m, "ok", <<>>)
            /\ UNCHANGED inflight
     ELSE /\ inflight' = [inflight EXCEPT ![w] =
                            [pc |-> "insert", m |-> m, row |-> ProvenanceRow(m),
                             seen |-> Len(db.DataProvenance)]]
          /\ UNCHANGED last
  /\ UNCHANGED <<db, list_of_dataelements, globals, connection, foreign_keys>>

\* The INSERT under a unique index on the columns of the key: a row that
\* is in the table by now is rejected and read back instead.
make_provenance_insert_Unique(w) ==
  /\ inflight[w].pc = "insert"
  /\ Len(db.DataProvenance) < MaxEvents
  /\ db' = IF \E i \in 1..Len(db.DataProvenance) : db.DataProvenance[i] = inflight[w].row
             THEN db
             ELSE [db EXCEPT !.DataProvenance = Append(@, inflight[w].row)]
  /\ inflight' = [inflight EXCEPT ![w] = NoCall]
  /\ last' = Call("make_provenance", inflight[w].m, "ok", <<>>)
  /\ UNCHANGED <<list_of_dataelements, globals, connection, foreign_keys>>

\* Writer w finishes its make_provenance: the INSERT of get_or_create, which
\* only the NOT NULL constraints can reject.
make_provenance_insert(w) ==
  /\ inflight[w].pc = "insert"
  /\ Len(db.DataProvenance) < MaxEvents
  /\ IF NotNull("DataProvenance", inflight[w].row)
       THEN /\ db' = [db EXCEPT !.DataProvenance = Append(@, inflight[w].row)]
            /\ last' = Call("make_provenance", inflight[w].m, "ok", <<>>)
       ELSE /\ db' = db
            /\ last' = Call("make_provenance", inflight[w].m, "IntegrityError", <<>>)
  /\ inflight' = [inflight EXCEPT ![w] = NoCall]
  /\ UNCHANGED <<list_of_dataelements, globals, connection, foreign_keys>>

(***************************************************************************)
(* get_provenance.  A text is the sequence of its lines, a line the        *)
(* sequence of the pieces its f-string is made of.                         *)
(***************************************************************************)
RECURSIVE SortedSeq(_)
SortedSeq(S) == IF S = {} THEN <<>> ELSE <<Min(S)>> \o SortedSeq(S \ {Min(S)})

\* The row a foreign key of value k points to in table t, if there is one.
HasRow(d, t, k) == k \in 1..Len(d[t])

\* The select reduced to its first row, as a get_or_none would read it.
ProvenanceDatapoint_First(d, datastore, variable, reference) ==
  LET hits == {i \in 1..Len(d.DataProvenance) :
                 LET dp == d.DataProvenance[i]
                     de == d.DataElement[dp.dataelement]
                 IN  /\ dp.destinationreference = Str(reference)
                     /\ d.DataStore[de.destination].name = datastore
                     /\ de.destination_variable = variable}
  IN  IF hits = {} THEN <<>> ELSE <<Min(hits)>>

\* The select with the reference compared as it was passed, without str():
\* only a reference passed as text can equal the text of the column.
ProvenanceDatapoint_RawReference(d, datastore, variable, reference) ==
  SortedSeq({i \in 1..Len(d.DataProvenance) :
     LET dp == d.DataProvenance[i]
         de == d.DataElement[dp.dataelement]
     IN  /\ reference.py = "str"
         /\ dp.destinationreference = reference.v
         /\ d.DataStore[de.destination].name = datastore
         /\ de.destination_variable = variable})

\* The select with one row for each source reference: of the events that
\* agree in DataElement and sourcereference only the first is returned.
ProvenanceDatapoint_DistinctSource(d, datastore, variable, reference) ==
  LET hits == {i \in 1..Len(d.DataProvenance) :
                 LET dp == d.DataProvenance[i]
                     de == d.DataElement[dp.dataelement]
                 IN  /\ dp.destinationreference = Str(reference)
                     /\ d.DataStore[de.destination].name = datastore
                     /\ de.destination_variable = variable}
  IN  SortedSeq({i \in hits :
                   \A j \in hits :
                     (d.DataProvenance[j].dataelement = d.DataProvenance[i].dataelement
                        /\ d.DataProvenance[j].sourcereference =
                             d.DataProvenance[i].sourcereference) => i <= j})

\* The select of get_provenance: DataProvenance inner-joined to DataElement,
\* to its destination and source DataStore, its Script, DataSteward and
\* DataOwner, filtered on the destination coordinates; row ids in table order.
ProvenanceDatapoint(d, datastore, variable, reference) ==
  SortedSeq({i \in 1..Len(d.DataProvenance) :
     LET dp == d.DataProvenance[i]
     IN  /\ HasRow(d, "DataElement", dp.dataelement)
         /\ LET de == d.DataElement[dp.dataelement]
            IN  /\ HasRow(d, "DataStore", de.destination)
                /\ HasRow(d, "DataStore", de.source)
                /\ HasRow(d, "Script", de.script)
                /\ HasRow(d, "DataSteward", de.steward)
                /\ HasRow(d, "DataOwner", de.owner)
                /\ dp.destinationreference = Str(reference)
                /\ d.DataStore[de.destination].name = datastore
                /\ de.destination_variable = variable})

\* str(n) of a row id.
Repr(n) == <<"1", "2", "3", "4", "5", "6", "7", "8", "9">>[n]

\* The keyword arguments the three text renderers are called with for event i.
RenderArgs(d, i) ==
  LET dp == d.DataProvenance[i]
      de == d.DataElement[dp.dataelement]
  IN  [source_name |-> d.DataStore[de.source].name,
       source_variable |-> de.source_variable,
       source_reference |-> dp.sourcereference,
       script_name |-> d.Script[de.script].name,
       script_version |-> d.Script[de.script].version,
       destination_name |-> d.DataStore[de.destination].name,
       destination_variable |-> de.destination_variable,
       destination_reference |-> dp.destinationreference,
       steward_name |-> d.DataSteward[de.steward].name,
       steward_role |-> d.DataSteward[de.steward].role]

\* The keyword arguments the fhir renderer is called with for event i: those
\* of the text renderers and five more.  dp.dataelement.governance is read
\* through the key of the element: the DataGovernance instance on a resolved
\* key, the id of the row on a deferred one.
FhirArgs(d, i) ==
  LET dp == d.DataProvenance[i]
      de == d.DataElement[dp.dataelement]
  IN  RenderArgs(d, i) @@
      [sop_name |-> IF foreign_keys = "resolved"
                      THEN [py |-> "DataGovernance", v |-> Repr(de.governance)]
                      ELSE PyInt(Repr(de.governance)),
       timestamp |-> dp.timestamp,
       description_of_transformation |-> de.description_of_transformation,
       owner_type |-> d.DataOwner[de.owner].type,
       owner_role |-> d.DataOwner[de.owner].role]

format_provenance_logtext(r) ==
  << <<r.source_name, " ", r.source_variable, " ", r.source_reference, " ",
       "was converted by ", r.script_name, " ", r.script_version, " ",
       "to ", r.destination_name, " ", r.destination_variable, " ",
       r.destination_reference, " ",
       "by ", r.steward_name, " ", r.steward_role>> >>

\* The flow line without the role of the steward on its arrow.
format_provenance_mermaid_flow_NoRole(r) ==
  << <<"    ", r.source_name, ".", r.source_variable, ".", r.source_reference,
       "--> |", r.script_name, ". ", r.script_version, "  ", r.steward_name, "| ",
       r.destination_name, ".", r.destination_variable, ".", r.destination_reference>> >>

format_provenance_mermaid_flow(r) ==
  << <<"    ", r.source_name, ".", r.source_variable, ".", r.source_reference,
       "--> |", r.script_name, ". ", r.script_version, "  ", r.steward_name, ".",
       r.steward_role, "| ",
       r.destination_name, ".", r.destination_variable, ".", r.destination_reference>> >>

format_provenance_mermaid_w3cprov(r) ==
  LET A == <<"A['", r.script_name, "''", r.script_version, "']">>
      B == <<"B(['", r.source_name, "''", r.source_variable, "''", r.source_reference, "'])">>
      C == <<"C(['", r.destination_name, "''", r.destination_variable, "''",
             r.destination_reference, "'])">>
  IN  << <<"    ">> \o A \o <<" -->|used| ">> \o B,
         <<"    ">> \o C \o <<" -->|was generated by| ">> \o A,
         <<"    ">> \o A \o <<" -.->|was associated with| ", "D[/'", r.steward_name, "'",
                               r.steward_role, "\\] ">>,
         <<"    ">> \o C \o <<"  -->|was derived from| ">> \o B >>

\* json.dump writes str, int and the containers of them; any other object
\* makes it raise TypeError.
JsonSerialisable(x) == x.py \in {"str", "int"}

\* The fhir document: the entries of fhird in the order of their first
\* assignment, each with the value of its last assignment.  The two
\* timestamps are the literal 'timestamp', target and entity are fixed
\* texts; only policy, location, the activity code and the agent come from
\* the arguments.
format_provenance_fhir(r) ==
  << <<"resourceType", "Provenance",
       "occuredDateTime", "timestamp",
       "recorded", "timestamp",
       "policy", r.sop_name.v,
       "location.reference", r.steward_name,
       "authorization.coding.code", "TRANSRCH",
       "activity.coding.code", r.description_of_transformation,
       "basedOn", "ServiceRequest",
       "target.reference", "Observation/omh-fhir-example",
       "entity.what.identifier.value", "243c773b-8936-407e-9c23-270d0ea49cc4",
       "agent.who.identifier", r.steward_name>> >>

Formats == {"logtext", "mermaid_flow", "mermaid_w3cprov", "fhir"}

\* The renderer of the format writes its text to standard output before it
\* returns it: the fhir renderer, once json.dump has returned.
Prints(d, i, format) == format = "fhir" /\ JsonSerialisable(FhirArgs(d, i).sop_name)

\* The for loop with a last branch that rejects a format it does not know.
Render_Strict(d, i, format) ==
  IF format = "logtext"
    THEN [ok |-> TRUE, err |-> "", text |-> format_provenance_logtext(RenderArgs(d, i))]
  ELSE IF format = "mermaid_flow"
    THEN [ok |-> TRUE, err |-> "", text |-> format_provenance_mermaid_flow(RenderArgs(d, i))]
  ELSE IF format = "mermaid_w3cprov"
    THEN [ok |-> TRUE, err |-> "", text |-> format_provenance_mermaid_w3cprov(RenderArgs(d, i))]
  ELSE IF format = "fhir"
    THEN IF JsonSerialisable(FhirArgs(d, i).sop_name)
           THEN [ok |-> TRUE, err |-> "", text |-> format_provenance_fhir(FhirArgs(d, i))]
           ELSE [ok |-> FALSE, err |-> "TypeError", text |-> <<>>]
  ELSE [ok |-> FALSE, err |-> "ValueError", text |-> <<>>]

\* What one pass of the for loop adds to provenance_text before it recurses.
\* The fhir branch hands dp.dataelement.governance to json.dump as
\* fhird['policy']: a DataGovernance instance makes json.dump raise.
Render(d, i, format) ==
  IF format = "logtext"
    THEN [ok |-> TRUE, err |-> "", text |-> format_provenance_logtext(RenderArgs(d, i))]
  ELSE IF format = "mermaid_flow"
    THEN [ok |-> TRUE, err |-> "", text |-> format_provenance_mermaid_flow(RenderArgs(d, i))]
  ELSE IF format = "mermaid_w3cprov"
    THEN [ok |-> TRUE, err |-> "", text |-> format_provenance_mermaid_w3cprov(RenderArgs(d, i))]
  ELSE IF format = "fhir"
    THEN IF JsonSerialisable(FhirArgs(d, i).sop_name)
           THEN [ok |-> TRUE, err |-> "", text |-> format_provenance_fhir(FhirArgs(d, i))]
           ELSE [ok |-> FALSE, err |-> "TypeError", text |-> <<>>]
  ELSE [ok |-> TRUE, err |-> "", text |-> <<>>]

\* The header written by every call, the recursive ones included.
Header_EveryCall(format, top_level_recursion) ==
  IF format = "mermaid_flow" \/ format = "mermaid_w3cprov"
    THEN << <<"graph TD">> >>
    ELSE <<>>

Header(format, top_level_recursion) ==
  IF (format = "mermaid_flow" \/ format = "mermaid_w3cprov") /\ top_level_recursion
    THEN << <<"graph TD">> >>
    ELSE <<>>

\* A descent through more calls than there are events passes twice through
\* one event, so it never ends by itself: the interpreter ends it with a
\* RecursionError.
RecursionLimit(d) == Len(d.DataProvenance) + 1

RECURSIVE GetProvenance(_, _, _, _, _, _)
RECURSIVE ForLoop(_, _, _, _, _, _)

\* get_provenance that writes the header before it looks at the count.
GetProvenance_HeaderFirst(d, datastore, variable, reference, format, depth) ==
  LET provenance_datapoint == ProvenanceDatapoint(d, datastore, variable, reference)
  IN  IF depth > RecursionLimit(d)
        THEN [ok |-> FALSE, err |-> "RecursionError", text |-> <<>>]
      ELSE ForLoop(d, provenance_datapoint, 1, format, depth, Header(format, depth = 1))

\* get_provenance(datastore, variable, reference, format, _top_level_recursion)
\* at call depth `depth`.
GetProvenance(d, datastore, variable, reference, format, depth) ==
  LET provenance_datapoint == ProvenanceDatapoint(d, datastore, variable, reference)
  IN  IF depth > RecursionLimit(d)
        THEN [ok |-> FALSE, err |-> "RecursionError", text |-> <<>>]
      ELSE IF Len(provenance_datapoint) = 0
        THEN [ok |-> TRUE, err |-> "", text |-> <<>>]
      ELSE ForLoop(d, provenance_datapoint, 1, format, depth, Header(format, depth = 1))

\* The for loop recursing with the destinationreference of the event in
\* place of its sourcereference.
RECURSIVE ForLoop_DestinationReference(_, _, _, _, _, _)
ForLoop_DestinationReference(d, dps, k, format, depth, provenance_text) ==
  IF k > Len(dps) THEN [ok |-> TRUE, err |-> "", text |-> provenance_text]
  ELSE
    LET dp == d.DataProvenance[dps[k]]
        de == d.DataElement[dp.dataelement]
        chunk == Render(d, dps[k], format)
    IN  IF ~chunk.ok THEN chunk
        ELSE
          LET rest == GetProvenance(d, d.DataStore[de.source].name, de.source_variable,
                                    PyStr(dp.destinationreference), format, depth + 1)
          IN  IF ~rest.ok THEN rest
              ELSE ForLoop_DestinationReference(d, dps, k + 1, format, depth,
                                                provenance_text \o chunk.text \o rest.text)

\* The for loop without its recursive call: the direct events only.
RECURSIVE ForLoop_Flat(_, _, _, _, _, _)
ForLoop_Flat(d, dps, k, format, depth, provenance_text) ==
  IF k > Len(dps) THEN [ok |-> TRUE, err |-> "", text |-> provenance_text]
  ELSE
    LET chunk == Render(d, dps[k], format)
    IN  IF ~chunk.ok THEN chunk
        ELSE ForLoop_Flat(d, dps, k + 1, format, depth, provenance_text \o chunk.text)

\* The for loop with the two += swapped: the lineage of the source first,
\* the chunk of the event after it.
RECURSIVE ForLoop_RecurseFirst(_, _, _, _, _, _)
ForLoop_RecurseFirst(d, dps, k, format, depth, provenance_text) ==
  IF k > Len(dps) THEN [ok |-> TRUE, err |-> "", text |-> provenance_text]
  ELSE
    LET dp == d.DataProvenance[dps[k]]
        de == d.DataElement[dp.dataelement]
        chunk == Render(d, dps[k], format)
    IN  IF ~chunk.ok THEN chunk
        ELSE
          LET rest == GetProvenance(d, d.DataStore[de.source].name, de.source_variable,
                                    PyStr(dp.sourcereference), format, depth + 1)
          IN  IF ~rest.ok THEN rest
              ELSE ForLoop_RecurseFirst(d, dps, k + 1, format, depth,
                                        provenance_text \o rest.text \o chunk.text)

\* The for loop of get_provenance from its k-th pass on, provenance_text
\* being the text built so far.
ForLoop(d, dps, k, format, depth, provenance_text) ==
  IF k > Len(dps) THEN [ok |-> TRUE, err |-> "", text |-> provenance_text]
  ELSE
    LET dp == d.DataProvenance[dps[k]]
        de == d.DataElement[dp.dataelement]
        chunk == Render(d, dps[k], format)
    IN  IF ~chunk.ok THEN chunk
        ELSE
          LET rest == GetProvenance(d, d.DataStore[de.source].name, de.source_variable,
                                    PyStr(dp.sourcereference), format, depth + 1)
          IN  IF ~rest.ok THEN rest
              ELSE ForLoop(d, dps, k + 1, format, depth,
                           provenance_text \o chunk.text \o rest.text)

get_provenance(q) ==
  LET r == GetProvenance(db, q.datastore, q.variable, q.reference, q.format, 1)
      provenance_datapoint == ProvenanceDatapoint(db, q.datastore, q.variable, q.reference)
  IN  /\ last' = [Call("get_provenance", q, IF r.ok THEN "ok" ELSE r.err, r.text)
                    EXCEPT !.printed = Len(provenance_datapoint) > 0
                                       /\ Prints(db, provenance_datapoint[1], q.format)]
      /\ UNCHANGED <<db, list_of_dataelements, globals, connection, inflight, foreign_keys>>

(***************************************************************************)
(* The calls made on the instance: the arguments the model draws from.     *)
(***************************************************************************)
ScriptArgs ==
  {[script_name |-> "sample_etl.py", script_version |-> "v1.9", script_creator |-> "KG"]}

GovernanceArgs ==
  {[sop_name |-> "SOP z", sop_version |-> "v5", sop_status |-> "approved"]}

FullOwner ==
  [owner_name |-> "A", owner_role |-> "Data Owner", owner_type |-> "Director",
   owner_department |-> "Chirurgie"]

OwnerArgs ==
  {[owner_name |-> "A", owner_role |-> None, owner_type |-> None, owner_department |-> None],
   FullOwner}

StewardArgs ==
  {[steward_name |-> "Hr. Koch", steward_role |-> "Data Steward",
    steward_type |-> "Programmer", steward_department |-> "DIC"]}

\* An add_definition call that passes the descriptive fields and no override.
PlainDefinition ==
  [id |-> "p", name |-> "pulse", description |-> "Puls rate",
   source |-> "X", source_variable |-> "v",
   destination |-> "Y", destination_variable |-> "v",
   description_of_transformation |-> "copy",
   description_of_qualitycheck |-> "range check 40-150",
   script_name |-> None, script_version |-> None, script_creator |-> None,
   status_log |-> "passed",
   owner_name |-> None, owner_role |-> None, owner_type |-> None, owner_department |-> None,
   steward_name |-> None, steward_role |-> None, steward_type |-> None,
   steward_department |-> None,
   sop_name |-> None, sop_version |-> None, sop_status |-> None]

\* An add_definition call that passes the four required arguments only.
MinimalDefinition ==
  [f \in DOMAIN PlainDefinition |->
     IF f \in RequiredArgs THEN PlainDefinition[f] ELSE None]

DefinitionArgs ==
  {[PlainDefinition EXCEPT !.id = i, !.owner_name = o] : i \in Ids, o \in {None, "", "B"}}
  \cup {[PlainDefinition EXCEPT !.description = None], MinimalDefinition}
  \cup {[PlainDefinition EXCEPT ![r] = Missing] : r \in RequiredArgs}

ProvenanceArgs ==
  {[name |-> i, sourcereference |-> PyInt("1"), destinationreference |-> x[1],
    quality |-> "good", timestamp |-> x[2]] :
     i \in Ids, x \in {<<PyInt("1"), DateTime("2022-01-02", "10:00")>>,
                       <<PyStr("1"), DateTime("2022-01-02", "11:00")>>}}

QueryArgs ==
  {[datastore |-> "Y", variable |-> "v", reference |-> PyInt("1"), format |-> f] :
     f \in Formats \cup {"json"}}

Next ==
  \/ \E g \in ScriptArgs : add_script_definition(g) /\ UNCHANGED journal
  \/ \E g \in GovernanceArgs : add_governance_definition(g) /\ UNCHANGED journal
  \/ \E g \in OwnerArgs : add_owner_definition(g) /\ UNCHANGED journal
  \/ \E g \in StewardArgs : add_steward_definition(g) /\ UNCHANGED journal
  \/ \E a \in DefinitionArgs : add_definition(a) /\ UNCHANGED journal
  \/ \E m \in ProvenanceArgs : make_provenance(m) /\ UNCHANGED journal
  \/ \E q \in QueryArgs : get_provenance(q) /\ UNCHANGED journal

Spec == Init /\ [][Next]_vars

(***************************************************************************)
(* A second set of calls, which builds lineages: elements X -> Y and       *)
(* Y -> Z, and events that chain them.                                     *)
(***************************************************************************)
LineageDefinitionArgs ==
  {[PlainDefinition EXCEPT !.id = "p", !.name = "pulse", !.source = "X", !.destination = "Y"],
   [PlainDefinition EXCEPT !.id = "q", !.name = "averagepulse", !.source = "Y",
                           !.destination = "Z"]}

LineageProvenanceArgs ==
  {[name |-> x[1], sourcereference |-> PyInt(x[2]), destinationreference |-> PyInt(x[3]),
    quality |-> x[4], timestamp |-> DateTime("2022-01-02", "10:00")] :
     x \in {<<"p", "1", "2", "good">>, <<"q", "2", "3", "good">>,
            <<"q", "2", "3", "low">>, <<"q", "1", "2", "good">>}}

LineageQueryArgs ==
  {[datastore |-> x[1], variable |-> "v", reference |-> x[2], format |-> x[3]] :
     x \in {<<"Z", PyInt("3"), "logtext">>, <<"Z", PyInt("3"), "mermaid_flow">>,
            <<"Y", PyStr("2"), "mermaid_w3cprov">>, <<"X", PyInt("1"), "mermaid_flow">>,
            <<"X", PyInt("1"), "fhir">>, <<"X", PyInt("1"), "json">>}}

NextLineage ==
  \/ \E g \in ScriptArgs : add_script_definition(g) /\ UNCHANGED journal
  \/ \E g \in GovernanceArgs : add_governance_definition(g) /\ UNCHANGED journal
  \/ add_owner_definition(FullOwner) /\ UNCHANGED journal
  \/ \E g \in StewardArgs : add_steward_definition(g) /\ UNCHANGED journal
  \/ \E a \in LineageDefinitionArgs : add_definition(a) /\ UNCHANGED journal
  \/ \E m \in LineageProvenanceArgs : make_provenance(m) /\ UNCHANGED journal
  \/ \E q \in LineageQueryArgs : get_provenance(q) /\ UNCHANGED journal

SpecLineage == Init /\ [][NextLineage]_vars

(***************************************************************************)
(* A third set of calls, on a store that is read and written back: the     *)
(* elements X -> Y and Y -> Y, whose events can meet in one destination    *)
(* and can lead back to where they started.                                *)
(***************************************************************************)
GraphDefinitionArgs ==
  {[PlainDefinition EXCEPT !.id = "p", !.name = "pulse", !.source = "X", !.destination = "Y"],
   [PlainDefinition EXCEPT !.id = "q", !.name = "averagepulse", !.source = "Y",
                           !.destination = "Y"]}

GraphProvenanceArgs ==
  {[name |-> x[1], sourcereference |-> PyInt(x[2]), destinationreference |-> PyInt(x[3]),
    quality |-> "good", timestamp |-> DateTime("2022-01-02", "10:00")] :
     x \in {<<"p", "1", "2">>, <<"p", "2", "1">>, <<"q", "1", "2">>, <<"q", "2", "2">>}}

GraphQueryArgs ==
  {[datastore |-> "Y", variable |-> "v", reference |-> x[1], format |-> x[2]] :
     x \in {<<PyInt("2"), "logtext">>, <<PyInt("2"), "mermaid_flow">>,
            <<PyInt("2"), "fhir">>, <<PyInt("2"), "json">>,
            <<PyInt("1"), "logtext">>, <<PyInt("1"), "mermaid_w3cprov">>}}

NextGraph ==
  \/ \E g \in ScriptArgs : add_script_definition(g) /\ UNCHANGED journal
  \/ \E g \in GovernanceArgs : add_governance_definition(g) /\ UNCHANGED journal
  \/ add_owner_definition(FullOwner) /\ UNCHANGED journal
  \/ \E g \in StewardArgs : add_steward_definition(g) /\ UNCHANGED journal
  \/ \E a \in GraphDefinitionArgs : add_definition(a) /\ UNCHANGED journal
  \/ \E m \in GraphProvenanceArgs : make_provenance(m) /\ UNCHANGED journal
  \/ \E q \in GraphQueryArgs : get_provenance(q) /\ UNCHANGED journal

SpecGraph == Init /\ [][NextGraph]_vars

(***************************************************************************)
(* A fourth set of calls: one element, and two writers recording its       *)
(* events at the same time.                                                *)
(***************************************************************************)
RaceProvenanceArgs ==
  {[name |-> "p", sourcereference |-> PyInt("1"), destinationreference |-> PyInt(x),
    quality |-> "good", timestamp |-> DateTime("2022-01-02", "10:00")] : x \in {"1", "2"}}

NextRace ==
  \/ \E g \in ScriptArgs : add_script_definition(g) /\ UNCHANGED journal
  \/ \E g \in GovernanceArgs : add_governance_definition(g) /\ UNCHANGED journal
  \/ add_owner_definition(FullOwner) /\ UNCHANGED journal
  \/ \E g \in StewardArgs : add_steward_definition(g) /\ UNCHANGED journal
  \/ add_definition(PlainDefinition) /\ UNCHANGED journal
  \/ \E w \in Writers, m \in RaceProvenanceArgs : make_provenance_select(w, m) /\ UNCHANGED journal
  \/ \E w \in Writers : make_provenance_insert(w) /\ UNCHANGED journal

SpecRace == Init /\ [][NextRace]_vars

(***************************************************************************)
(* A fifth set of calls: the life of one instance, from before __init__ to *)
(* after __del__, with calls that return and calls that raise in between.  *)
(***************************************************************************)
LifeDefinitionArgs ==
  {PlainDefinition, MinimalDefinition, [PlainDefinition EXCEPT !.name = Missing]}

LifeProvenanceArgs ==
  {[name |-> i, sourcereference |-> PyInt("1"), destinationreference |-> PyInt("1"),
    quality |-> "good", timestamp |-> DateTime("2022-01-02", "10:00")] : i \in Ids}

LifeQueryArgs ==
  {[datastore |-> "Y", variable |-> "v", reference |-> PyInt("1"), format |-> f] :
     f \in {"logtext", "fhir"}}

NextLife ==
  \/ \E f \in FailurePoints : __init__(f) /\ UNCHANGED journal
  \/ Alive /\ \E g \in ScriptArgs : add_script_definition(g) /\ UNCHANGED journal
  \/ Alive /\ \E g \in GovernanceArgs : add_governance_definition(g) /\ UNCHANGED journal
  \/ Alive /\ add_owner_definition(FullOwner) /\ UNCHANGED journal
  \/ Alive /\ \E g \in StewardArgs : add_steward_definition(g) /\ UNCHANGED journal
  \/ Alive /\ \E a \in LifeDefinitionArgs : add_definition(a) /\ UNCHANGED journal
  \/ Alive /\ \E m \in LifeProvenanceArgs : make_provenance(m) /\ UNCHANGED journal
  \/ Alive /\ \E q \in LifeQueryArgs : get_provenance(q) /\ UNCHANGED journal
  \/ __del__ /\ UNCHANGED journal

SpecLife == InitNew /\ [][NextLife]_vars

(***************************************************************************)
(* A fifth set of calls: a driver that makes its calls on one instance,    *)
(* then opens a new instance on the file the first one wrote and makes     *)
(* the same calls again, in the same order.                                *)
(***************************************************************************)
MaxCalls == 4

\* An add_definition call that passes every group in full.
FullDefinition ==
  [PlainDefinition EXCEPT
     !.script_name = "sample_etl.py", !.script_version = "v1.9", !.script_creator = "KG",
     !.owner_name = "B", !.owner_role = "Data Owner", !.owner_type = "Director",
     !.owner_department = "Chirurgie",
     !.steward_name = "Hr. Koch", !.steward_role = "Data Steward",
     !.steward_type = "Programmer", !.steward_department = "DIC",
     !.sop_name = "SOP z", !.sop_version = "v5", !.sop_status = "approved"]

ReplayDefinitionArgs ==
  {FullDefinition,
   [FullDefinition EXCEPT !.owner_name = None],
   [FullDefinition EXCEPT !.id = "q", !.name = "averagepulse"]}

ReplayProvenanceArgs ==
  {[name |-> i, sourcereference |-> PyInt("1"), destinationreference |-> PyInt("1"),
    quality |-> "good", timestamp |-> DateTime("2022-01-02", "10:00")] : i \in Ids}

\* The driver makes the call op(a): on its first instance any call, which
\* the journal records; on the second instance the next call of the journal.
Driver(op, a) ==
  IF journal.pass = 1
    THEN /\ Len(journal.calls) < MaxCalls
         /\ journal' = [journal EXCEPT !.calls = Append(@, [op |-> op, args |-> a])]
    ELSE /\ journal.pc <= Len(journal.calls)
         /\ journal.calls[journal.pc].op = op
         /\ journal.calls[journal.pc].args = a
         /\ journal' = [journal EXCEPT !.pc = @ + 1]

\* A new instance that takes over the settings of the instance before it.
reopen_KeepDefaults ==
  /\ journal.pass = 1
  /\ journal' = [journal EXCEPT !.pass = 2, !.pc = 1,
                   !.first = [db |-> db, list_of_dataelements |-> list_of_dataelements]]
  /\ list_of_dataelements' = [i \in Ids |-> NoRef]
  /\ connection' = [state |-> "open", opened |-> 1, closed |-> 0]
  /\ last' = Call("__init__", <<>>, "ok", <<>>)
  /\ UNCHANGED <<db, globals, inflight, foreign_keys>>

\* Provenance(db_filename) on the file of the instance before: a new
\* connection, create_tables(safe = True) on tables that exist, an empty
\* registry and every setting None.  The rows of the file are as they were.
reopen ==
  /\ journal.pass = 1
  /\ journal' = [journal EXCEPT !.pass = 2, !.pc = 1,
                   !.first = [db |-> db, list_of_dataelements |-> list_of_dataelements]]
  /\ list_of_dataelements' = [i \in Ids |-> NoRef]
  /\ globals' = NoGlobals
  /\ connection' = [state |-> "open", opened |-> 1, closed |-> 0]
  /\ last' = Call("__init__", <<>>, "ok", <<>>)
  /\ UNCHANGED <<db, inflight, foreign_keys>>

NextReplay ==
  \/ Driver("add_owner_definition", FullOwner) /\ add_owner_definition(FullOwner)
  \/ \E a \in ReplayDefinitionArgs : Driver("add_definition", a) /\ add_definition(a)
  \/ \E m \in ReplayProvenanceArgs : Driver("make_provenance", m) /\ make_provenance(m)
  \/ reopen

SpecReplay == Init /\ [][NextReplay]_vars


(***************************************************************************)
(* Properties.                                                             *)
(***************************************************************************)
Rows(t) == 1..Len(db[t])

\* The ids of the rows of table t of database d that are equal to row.
Copies(d, t, row) == {i \in 1..Len(d[t]) : d[t][i] = row}

\* C1: with a single writer, no table of reference entities (DataStore,
\* Script, DataOwner, DataSteward, DataGovernance) ever holds two rows with
\* the same attribute values: a call whose key is already stored reuses the
\* stored row.
C1_NoDuplicateReferenceRows ==
  \A t \in ReferenceTables : \A i, j \in Rows(t) : db[t][i] = db[t][j] => i = j

\* Two elements have been defined one after the other and share their
\* DataStore, Script, DataSteward and DataGovernance rows.
C1_Witness ==
  /\ last.op = "add_definition" /\ last.outcome = "ok"
  /\ Len(db.DataElement) = 2
  /\ Len(db.DataOwner) = 2
  /\ Len(db.DataStore) = 2 /\ Len(db.Script) = 1
  /\ Len(db.DataSteward) = 1 /\ Len(db.DataGovernance) = 1

\* The DataElement row of a call add_definition(a) agrees with the
\* arguments of the call on the descriptive fields and the two stores.
DescribedBy(d, row, a) ==
  /\ row.name = a.name /\ row.description = a.description
  /\ row.source_variable = a.source_variable
  /\ row.destination_variable = a.destination_variable
  /\ row.description_of_transformation = a.description_of_transformation
  /\ row.description_of_qualitycheck = a.description_of_qualitycheck
  /\ row.status_log = a.status_log
  /\ d.DataStore[row.source].name = a.source
  /\ d.DataStore[row.destination].name = a.destination

\* C2: an add_definition call that repeats the call before it, argument for
\* argument, inserts no row in any table and leaves the id bound as the
\* first call left it; when the calls return, the id is bound to a
\* DataElement row carrying the attributes of the call, and the table holds
\* exactly one row with that attribute tuple.
C2_DefinitionIdempotent ==
  [][(last'.op = "add_definition" /\ last'.again) =>
       /\ db' = db
       /\ list_of_dataelements' = list_of_dataelements
       /\ last'.outcome = last.outcome
       /\ last'.outcome = "ok" =>
            LET de == list_of_dataelements'[last'.args.id]
            IN  /\ de \in 1..Len(db'.DataElement)
                /\ DescribedBy(db', db'.DataElement[de], last'.args)
                /\ Cardinality(Copies(db', "DataElement", db'.DataElement[de])) = 1]_vars

C2_Witness ==
  /\ last.op = "add_definition" /\ last.again /\ last.outcome = "ok"
  /\ list_of_dataelements[last.args.id] \in 1..Len(db.DataElement)

\* The DataProvenance row of a call make_provenance(m) for DataElement de.
EventRow(de, m) ==
  [dataelement |-> de,
   sourcereference |-> m.sourcereference.v,
   destinationreference |-> m.destinationreference.v,
   quality |-> m.quality,
   timestamp |-> m.timestamp.date]

\* C3: a make_provenance call that repeats the call before it (same id,
\* sourcereference, destinationreference, quality and timestamp, the id not
\* rebound in between) changes nothing in the store, which holds exactly
\* one DataProvenance row for the tuple.
C3_EventIdempotent ==
  [][(last'.op = "make_provenance" /\ last'.again) =>
       /\ db' = db
       /\ last'.outcome = last.outcome
       /\ last'.outcome = "ok" =>
            Cardinality(Copies(db', "DataProvenance",
                               EventRow(list_of_dataelements[last'.args.name],
                                        last'.args))) = 1]_vars

C3_Witness ==
  /\ last.op = "make_provenance" /\ last.again /\ last.outcome = "ok"
  /\ Len(db.DataProvenance) >= 1

\* C4: make_provenance with an id that add_definition never bound fails with
\* a KeyError and leaves the tables, the registry and the defaults as they
\* were.
C4_UnknownIdFails ==
  [][(last'.op = "make_provenance" /\ list_of_dataelements[last'.args.name] = NoRef) =>
       /\ last'.outcome = "KeyError"
       /\ db' = db
       /\ list_of_dataelements' = list_of_dataelements
       /\ globals' = globals]_vars

\* The call failed on an id that is not bound while another id is bound
\* and the store holds rows.
C4_Witness ==
  /\ last.op = "make_provenance" /\ last.outcome = "KeyError"
  /\ list_of_dataelements[last.args.name] = NoRef
  /\ \E i \in Ids : list_of_dataelements[i] # NoRef
  /\ Len(db.DataElement) >= 1

\* The value a field takes in add_definition: the non-empty value passed in
\* the call, otherwise the current default.
Effective(a, f) == IF a[f] # None /\ a[f] # "" THEN a[f] ELSE globals[f]

\* The four groups: foreign key of DataElement, table, and the argument
\* that feeds each column.
Groups ==
  {[fk |-> "owner", table |-> "DataOwner",
    arg |-> [name |-> "owner_name", role |-> "owner_role", type |-> "owner_type",
             department |-> "owner_department"]],
   [fk |-> "steward", table |-> "DataSteward",
    arg |-> [name |-> "steward_name", role |-> "steward_role", type |-> "steward_type",
             department |-> "steward_department"]],
   [fk |-> "governance", table |-> "DataGovernance",
    arg |-> [name |-> "sop_name", version |-> "sop_version", status |-> "sop_status"]],
   [fk |-> "script", table |-> "Script",
    arg |-> [name |-> "script_name", version |-> "script_version",
             creator |-> "script_creator"]]}

\* The descriptive fields of add_definition, which no default backs.
DescriptiveFields ==
  {"name", "description", "source", "source_variable", "destination",
   "destination_variable", "description_of_transformation",
   "description_of_qualitycheck", "status_log"}

\* The call add_definition(a) passes every descriptive field, and in each of
\* the four groups the call or the defaults give at least one field.
EveryGroupGiven(a) ==
  /\ \A f \in DescriptiveFields \cup {"id"} : a[f] # None /\ a[f] # Missing
  /\ \A G \in Groups : \E c \in DOMAIN G.arg : Truthy(Effective(a, G.arg[c]))

\* C5: add_definition stores, for each field of the script, governance,
\* owner and steward groups, the non-empty value passed in the call if there
\* is one, otherwise the current default of the field, otherwise no value:
\* after the call the id is bound to a DataElement whose four rows carry
\* exactly these values.
C5_OverrideResolution ==
  (last.op = "add_definition" /\ EveryGroupGiven(last.args)) =>
    LET a == last.args
        de == list_of_dataelements[a.id]
    IN  /\ de \in Rows("DataElement")
        /\ DescribedBy(db, db.DataElement[de], a)
        /\ \A G \in Groups :
             /\ db.DataElement[de][G.fk] \in Rows(G.table)
             /\ \A c \in DOMAIN G.arg :
                  db[G.table][db.DataElement[de][G.fk]][c] = Effective(a, G.arg[c])

\* What holds of the calls that return: the rows of the DataElement bound to
\* the id carry the non-empty value of the call, otherwise the default.
OverrideResolutionOnReturn ==
  (last.op = "add_definition" /\ last.outcome = "ok") =>
    LET a == last.args
        de == db.DataElement[list_of_dataelements[a.id]]
    IN  \A G \in Groups :
          /\ de[G.fk] \in Rows(G.table)
          /\ \A c \in DOMAIN G.arg :
               db[G.table][de[G.fk]][c] = Effective(a, G.arg[c])

SetterOps == {"add_script_definition", "add_governance_definition",
              "add_owner_definition", "add_steward_definition"}

\* C6: a call of a default setter changes no row of any table and no
\* binding of the registry: the elements defined before it keep the values
\* captured when they were defined.
C6_SettersLeaveStore ==
  [][last'.op \in SetterOps =>
       db' = db /\ list_of_dataelements' = list_of_dataelements]_vars

\* The owner defaults were replaced after an element was defined with the
\* former ones, which its DataOwner row still carries.
C6_Witness ==
  /\ last.op = "add_owner_definition"
  /\ globals.owner_role = None
  /\ \E i \in Rows("DataElement") :
       db.DataOwner[db.DataElement[i].owner].role = "Data Owner"
  /\ \E i \in Ids : list_of_dataelements[i] # NoRef

\* C7: an add_definition that returns for an id already bound keeps every
\* DataElement row of the store, binds the id to the row of this call and
\* leaves the other ids alone; when the call inserted a row (attributes not
\* stored yet), the id is bound to that newest row, which differs from the
\* row it was bound to.  An id is bound to one row at most.
C7_RebindLastWriterWins ==
  [][(last'.op = "add_definition" /\ last'.outcome = "ok"
        /\ list_of_dataelements[last'.args.id] # NoRef) =>
       LET a == last'.args
           old == list_of_dataelements[a.id]
           new == list_of_dataelements'[a.id]
       IN  /\ \A i \in Rows("DataElement") : db'.DataElement[i] = db.DataElement[i]
           /\ new \in 1..Len(db'.DataElement)
           /\ DescribedBy(db', db'.DataElement[new], a)
           /\ \A j \in Ids \ {a.id} : list_of_dataelements'[j] = list_of_dataelements[j]
           /\ Len(db'.DataElement) = Len(db.DataElement) + 1 =>
                /\ new = Len(db'.DataElement)
                /\ db'.DataElement[new] # db.DataElement[old]]_vars

\* The id of the call was bound to row 1 and is now bound to row 2; both
\* rows are in the store and the other id was never bound.
C7_Witness ==
  /\ last.op = "add_definition" /\ last.outcome = "ok"
  /\ Len(db.DataElement) = 2
  /\ db.DataElement[1] # db.DataElement[2]
  /\ list_of_dataelements[last.args.id] = 2
  /\ \A j \in Ids \ {last.args.id} : list_of_dataelements[j] = NoRef

\* C8: the store only grows: every row of every table is found unchanged,
\* under the same row id, after each call of a public operation.
C8_StoreOnlyGrows ==
  [][\A t \in Tables :
       /\ Len(db'[t]) >= Len(db[t])
       /\ \A i \in Rows(t) : db'[t][i] = db[t][i]]_vars

\* Every table holds rows, two events are recorded, and the last call was
\* a get_provenance that rendered one of them.
C8_Witness ==
  /\ \A t \in Tables : Len(db[t]) >= 1
  /\ Len(db.DataProvenance) = 2 /\ Len(db.DataElement) = 2
  /\ last.op = "get_provenance" /\ last.outcome = "ok" /\ last.ret # <<>>

\* The events recorded with the destination coordinates (store, variable,
\* reference), and the source coordinates of an event.
EventsInto(store, variable, reference) ==
  {i \in Rows("DataProvenance") :
     LET dp == db.DataProvenance[i]
         de == db.DataElement[dp.dataelement]
     IN  /\ db.DataStore[de.destination].name = store
         /\ de.destination_variable = variable
         /\ dp.destinationreference = reference}

SourceOf(i) ==
  LET dp == db.DataProvenance[i]
      de == db.DataElement[dp.dataelement]
  IN  [store |-> db.DataStore[de.source].name, variable |-> de.source_variable,
       reference |-> dp.sourcereference]

\* The depth-first listing of a lineage with an explicit stack of the events
\* still to render: the first one is rendered and replaced on the stack by
\* the events into its source coordinates.
RECURSIVE DepthFirst(_, _, _)
DepthFirst(stack, format, out) ==
  IF stack = <<>> THEN out
  ELSE LET src == SourceOf(Head(stack))
       IN  DepthFirst(SortedSeq(EventsInto(src.store, src.variable, src.reference))
                        \o Tail(stack),
                      format, out \o Render(db, Head(stack), format).text)

\* A text without its graph declaration.
Body(text) == IF text # <<>> /\ text[1] = <<"graph TD">> THEN Tail(text) ELSE text

LogLine(sn, sv, sr, dn, dv, dr) ==
  <<sn, " ", sv, " ", sr, " ", "was converted by ", "sample_etl.py", " ", "v1.9", " ",
    "to ", dn, " ", dv, " ", dr, " ", "by ", "Hr. Koch", " ", "Data Steward">>

\* The store holds the chain E1 (X,v,1) -> (Y,v,2), E2 (Y,v,2) -> (Z,v,3) and
\* no other event into (Z,v,3) or (Y,v,2).
ChainStored ==
  /\ Cardinality(EventsInto("Z", "v", "3")) = 1
  /\ Cardinality(EventsInto("Y", "v", "2")) = 1
  /\ \E e2 \in EventsInto("Z", "v", "3") :
       SourceOf(e2) = [store |-> "Y", variable |-> "v", reference |-> "2"]
  /\ \E e1 \in EventsInto("Y", "v", "2") :
       SourceOf(e1) = [store |-> "X", variable |-> "v", reference |-> "1"]

\* C9: the text get_provenance returns is the depth-first listing of the
\* lineage: the chunk of each event into the queried coordinates, in query
\* order, directly followed by the whole lineage of the source coordinates
\* of that event.  For the chain E1 (X,v,1) -> (Y,v,2), E2 (Y,v,2) -> (Z,v,3)
\* the query (Z,v,3) returns the line of E2 and then the line of E1.
C9_DepthFirstLineage ==
  (last.op = "get_provenance" /\ last.outcome = "ok") =>
    LET q == last.args
    IN  /\ Body(last.ret) =
             DepthFirst(SortedSeq(EventsInto(q.datastore, q.variable, q.reference.v)),
                        q.format, <<>>)
        /\ (ChainStored /\ q.datastore = "Z" /\ q.reference.v = "3"
              /\ q.format = "logtext") =>
             last.ret = <<LogLine("Y", "v", "2", "Z", "v", "3"),
                          LogLine("X", "v", "1", "Y", "v", "2")>>

C9_Witness ==
  /\ last.op = "get_provenance" /\ last.outcome = "ok"
  /\ ChainStored
  /\ last.args.datastore = "Z" /\ last.args.format = "logtext"
  /\ Len(last.ret) = 2
  /\ last.ret[1][1] = "Y" /\ last.ret[2][1] = "X"

\* C10: get_provenance on coordinates that are the destination of no
\* recorded event returns the empty text and raises nothing, whatever the
\* format: no graph declaration either.
C10_NoMatchEmptyText ==
  (last.op = "get_provenance"
     /\ EventsInto(last.args.datastore, last.args.variable, last.args.reference.v) = {}) =>
    (last.outcome = "ok" /\ last.ret = <<>>)

\* A diagram was asked for coordinates without event in a store that holds
\* events.
C10_Witness ==
  /\ last.op = "get_provenance" /\ last.args.format = "mermaid_flow"
  /\ EventsInto(last.args.datastore, last.args.variable, last.args.reference.v) = {}
  /\ Len(db.DataProvenance) >= 1
  /\ last.outcome = "ok" /\ last.ret = <<>>

\* The text holds the lines of part next to each other and in order.
Contains(text, part) ==
  \E k \in 0..(Len(text) - Len(part)) : SubSeq(text, k + 1, k + Len(part)) = part

\* The DataElements of the events recorded with the queried coordinates.
ElementsInto(q) ==
  {db.DataProvenance[i].dataelement :
     i \in EventsInto(q.datastore, q.variable, q.reference.v)}

\* C11: when events of two distinct DataElements are recorded with the same
\* destination coordinates, the text one get_provenance call returns for
\* these coordinates holds, for each of these events, the chunk of the event
\* directly followed by the lineage of its own source coordinates.
C11_SiblingChains ==
  (last.op = "get_provenance" /\ last.outcome = "ok"
     /\ Cardinality(ElementsInto(last.args)) >= 2) =>
    LET q == last.args
    IN  \A e \in EventsInto(q.datastore, q.variable, q.reference.v) :
          Contains(last.ret, DepthFirst(<<e>>, q.format, <<>>))

\* Two elements wrote (Y,v,2); the source of one of them is itself the
\* destination of a third event, and the text holds three lines.
C11_Witness ==
  /\ last.op = "get_provenance" /\ last.outcome = "ok" /\ last.args.format = "logtext"
  /\ Cardinality(ElementsInto(last.args)) = 2
  /\ Cardinality(EventsInto("Y", "v", "2")) = 2
  /\ last.args.reference.v = "2"
  /\ \E e \in EventsInto("Y", "v", "2") :
       EventsInto(SourceOf(e).store, SourceOf(e).variable, SourceOf(e).reference) # {}
  /\ Len(last.ret) = 3

\* The coordinates a caller may ask for.
Coordinates ==
  {[datastore |-> st, variable |-> "v", reference |-> r] :
     st \in {"X", "Y"}, r \in {PyInt("1"), PyStr("1"), PyInt("2")}}

Upstream(e) == EventsInto(SourceOf(e).store, SourceOf(e).variable, SourceOf(e).reference)

\* The events reached from the events of S by going upstream any number of
\* times, S included.
RECURSIVE Closure(_)
Closure(S) ==
  LET T == S \cup UNION {Upstream(e) : e \in S}
  IN  IF T = S THEN S ELSE Closure(T)

\* Event e lies on a cycle: going upstream from it leads back to it.
OnCycle(e) == e \in Closure(Upstream(e))

\* The events a query on coordinates q goes through.
Lineage(q) == Closure(EventsInto(q.datastore, q.variable, q.reference.v))

\* The events whose logtext line is the given line.
EventsOfLine(line) ==
  {e \in Rows("DataProvenance") : format_provenance_logtext(RenderArgs(db, e)) = <<line>>}

\* C13: when no recorded event lies on a cycle, every get_provenance call
\* ends without exhausting the recursion, whatever the coordinates and the
\* format; the text it returns follows every chain to its end: it holds the
\* line of every event upstream of an event it holds, and its last line is
\* that of an event whose source coordinates are the destination of no
\* recorded event.
C13_AcyclicTerminates ==
  (last.op = "get_provenance" /\ \A e \in Rows("DataProvenance") : ~OnCycle(e)) =>
    /\ last.outcome # "RecursionError"
    /\ (last.outcome = "ok" /\ last.args.format = "logtext" /\ last.ret # <<>>) =>
         /\ \A k \in 1..Len(last.ret) :
              \A e \in EventsOfLine(last.ret[k]) :
                \A u \in Upstream(e) :
                  \E j \in 1..Len(last.ret) : u \in EventsOfLine(last.ret[j])
         /\ \E e \in EventsOfLine(last.ret[Len(last.ret)]) : Upstream(e) = {}

\* Three events without a cycle: two into (Y,v,2), one of them fed by the
\* third; the query on (Y,v,2) returned three lines.
C13_Witness ==
  /\ last.op = "get_provenance" /\ last.outcome = "ok" /\ last.args.format = "logtext"
  /\ Len(db.DataProvenance) = 3
  /\ \A e \in Rows("DataProvenance") : ~OnCycle(e)
  /\ \E e \in Rows("DataProvenance") : Upstream(e) # {}
  /\ Len(last.ret) = 3

\* The ways a call ends: it returns, or it raises one of these exceptions.
Outcomes == {"ok", "TypeError", "KeyError", "IntegrityError", "RecursionError"}

\* The query q goes through an event that lies on a cycle.
CycleReachable(q) == \E e \in Lineage(q) : OnCycle(e)

\* C14 as claimed: a get_provenance call on coordinates from which a cycle
\* is reached never ends, neither with a text nor with an error.
C14_NeverReturns ==
  (last.op = "get_provenance" /\ CycleReachable(last.args)) => last.outcome \notin Outcomes

\* C14: a get_provenance call on coordinates from which a cycle is reached
\* returns no text: nothing keeps track of the coordinates visited, the
\* recursion goes on until the interpreter ends it, and the call raises
\* RecursionError (with the fhir format and a governance reference that
\* json cannot write, the first chunk raises TypeError before any
\* recursion).
C14_CycleRaises ==
  (last.op = "get_provenance" /\ CycleReachable(last.args)) =>
    /\ last.outcome # "ok" /\ last.ret = <<>>
    /\ (last.args.format # "fhir" \/ foreign_keys = "deferred") =>
         last.outcome = "RecursionError"
    /\ (last.args.format = "fhir" /\ foreign_keys = "resolved") =>
         last.outcome = "TypeError"

\* The store holds the event (Y,v,2) -> (Y,v,2) and the query on (Y,v,2)
\* ended with a RecursionError.
C14_Witness ==
  /\ last.op = "get_provenance" /\ last.args.format = "logtext"
  /\ last.args.reference.v = "2"
  /\ \E e \in EventsInto("Y", "v", "2") : e \in Upstream(e)
  /\ last.outcome = "RecursionError"

C16_RequiredArgsSuffice ==
  (last.op = "add_definition" /\ globals = NoGlobals
     /\ \A f \in DOMAIN last.args :
          IF f \in RequiredArgs THEN last.args[f] # Missing ELSE last.args[f] = None) =>
    LET a == last.args
        de == list_of_dataelements[a.id]
    IN  /\ last.outcome = "ok"
        /\ \E i \in Rows("DataStore") : db.DataStore[i].name = a.source
        /\ \E i \in Rows("DataStore") : db.DataStore[i].name = a.destination
        /\ de \in Rows("DataElement")
        /\ db.DataElement[de].name = a.name
        /\ \A G \in Groups : db.DataElement[de][G.fk] = NoRef

\* C17: a call of a default setter leaves every default of its group equal
\* to the argument passed for it, absent where none was passed, whatever the
\* default was before; the defaults of the other groups, the tables and the
\* registry are as before the call.
C17_SetterReplacesGroup ==
  [][last'.op \in SetterOps =>
       /\ \A f \in DOMAIN last'.args : globals'[f] = last'.args[f]
       /\ \A f \in DOMAIN globals \ DOMAIN last'.args : globals'[f] = globals[f]
       /\ db' = db
       /\ list_of_dataelements' = list_of_dataelements]_vars

\* The owner defaults were complete when an element was defined; the last
\* call passed the owner name alone and the three other owner defaults are
\* absent again, while the defaults of the other groups are still set.
C17_Witness ==
  /\ last.op = "add_owner_definition"
  /\ last.args.owner_name = "A" /\ last.args.owner_role = None
  /\ \E i \in Rows("DataOwner") : db.DataOwner[i] =
       [name |-> "A", role |-> "Data Owner", type |-> "Director", department |-> "Chirurgie"]
  /\ globals.owner_name = "A"
  /\ globals.owner_role = None /\ globals.owner_type = None
  /\ globals.owner_department = None
  /\ globals.script_name = "sample_etl.py" /\ globals.steward_name = "Hr. Koch"
  /\ globals.sop_name = "SOP z"

\* No effective field of group G is given in the call add_definition(a).
GroupAbsent(a, G) == \A c \in DOMAIN G.arg : ~Truthy(Effective(a, G.arg[c]))

\* Every effective field of group G is given in the call add_definition(a).
GroupComplete(a, G) == \A c \in DOMAIN G.arg : Truthy(Effective(a, G.arg[c]))

\* C18: add_definition creates or reuses the row of a group exactly when an
\* effective field of the group is given.  For a call that passes every
\* descriptive field: a group without any effective field gets no row and
\* the DataElement bound to the id has no reference to it; a group with its
\* effective fields has its row, which the DataElement refers to.
C18_GroupRowIffGiven ==
  [][(last'.op = "add_definition"
        /\ \A f \in DescriptiveFields \cup {"id"} :
             last'.args[f] # None /\ last'.args[f] # Missing
        /\ \A G \in Groups : GroupAbsent(last'.args, G) \/ GroupComplete(last'.args, G)) =>
       LET a == last'.args
           de == list_of_dataelements'[a.id]
       IN  /\ de \in 1..Len(db'.DataElement)
           /\ DescribedBy(db', db'.DataElement[de], a)
           /\ \A G \in Groups :
                IF GroupAbsent(a, G)
                  THEN /\ db'[G.table] = db[G.table]
                       /\ db'.DataElement[de][G.fk] = NoRef
                  ELSE /\ db'.DataElement[de][G.fk] \in 1..Len(db'[G.table])
                       /\ \A c \in DOMAIN G.arg :
                            db'[G.table][db'.DataElement[de][G.fk]][c] =
                              Effective(a, G.arg[c])]_vars

\* C19: the SELECT and the INSERT of get_or_create are two steps and the
\* schema has no uniqueness constraint: the INSERT of a writer whose SELECT
\* found nothing adds its row whatever the table holds by then, and a row
\* equal to it can only have been inserted after that SELECT.  Two writers
\* that both select before either inserts leave two rows with one key.
C19_InsertAfterStaleSelect ==
  [][\A w \in Writers :
       (inflight[w].pc = "insert" /\ inflight'[w] = NoCall) =>
         /\ db'.DataProvenance = Append(db.DataProvenance, inflight[w].row)
         /\ \A i \in 1..Len(db.DataProvenance) :
              db.DataProvenance[i] = inflight[w].row => i > inflight[w].seen]_vars

\* The DataProvenance table holds two equal rows.
C19_Witness ==
  \E i, j \in Rows("DataProvenance") : i < j /\ db.DataProvenance[i] = db.DataProvenance[j]

\* C20: the connection is opened once, by __init__, and never a second
\* time; it is open, and was never closed, in every state in which the
\* instance can be called, whether its calls returned or raised; once
\* __del__ has run the connection is not open, and it was closed as often
\* as it was opened: once when __init__ got as far as connecting (also when
\* it raised after that), never when the connection could not be opened.
C20_ConnectionScoped ==
  /\ connection.opened <= 1 /\ connection.closed <= connection.opened
  /\ Alive => connection = [state |-> "open", opened |-> 1, closed |-> 0]
  /\ (last.op = "__init__" /\ last.outcome = "DatabaseError") =>
       connection = [state |-> "open", opened |-> 1, closed |-> 0]
  /\ last.op = "__del__" =>
       /\ connection.state # "open"
       /\ connection.closed = connection.opened

\* __del__ closed the connection of an instance on which an add_definition
\* had raised after writing its DataStore rows.
C20_Witness ==
  /\ last.op = "__del__"
  /\ connection = [state |-> "closed", opened |-> 1, closed |-> 1]
  /\ Len(db.DataStore) >= 1 /\ Len(db.DataElement) = 0

\* The positions of the graph declaration in a text.
Declarations(text) == {k \in 1..Len(text) : text[k] = <<"graph TD">>}

\* C21: the text get_provenance returns for mermaid_flow or mermaid_w3cprov
\* on coordinates with events holds the graph declaration once, as its first
\* line, whatever the depth of the lineage and the number of sibling chains:
\* the recursive calls add none.  The text of any other format, and the
\* empty text of a query without event, hold none.
C21_SingleHeader ==
  (last.op = "get_provenance" /\ last.outcome = "ok") =>
    IF last.args.format \in {"mermaid_flow", "mermaid_w3cprov"}
         /\ EventsInto(last.args.datastore, last.args.variable, last.args.reference.v) # {}
      THEN Declarations(last.ret) = {1}
      ELSE Declarations(last.ret) = {}

\* A diagram of three events: two into the queried coordinates, the third
\* one level further up.
C21_Witness ==
  /\ last.op = "get_provenance" /\ last.outcome = "ok"
  /\ last.args.format = "mermaid_flow"
  /\ Cardinality(EventsInto(last.args.datastore, last.args.variable,
                            last.args.reference.v)) = 2
  /\ Len(last.ret) = 4
  /\ last.ret[1] = <<"graph TD">>

\* The fixed pieces of the logtext line and of the mermaid_flow line.
LogtextFixed == {" ", "was converted by ", "to ", "by "}
FlowFixed == {"    ", ".", "--> |", ". ", "  ", "| "}

\* The pieces of a line that are not fixed text, in their order.
Facts(line, fixed) == SelectSeq(line, LAMBDA x : x \notin fixed)

\* How often fact v occurs in a sequence of facts.
Occurrences(facts, v) == Cardinality({k \in 1..Len(facts) : facts[k] = v})

\* C22: for every recorded event the logtext chunk and the mermaid_flow
\* chunk are one line each, differ as texts, and carry the same facts: each
\* holds the source store, variable and reference, the script name and
\* version, the destination store, variable and reference and the steward
\* name and role of the event, and no fact is in one and not in the other.
C22_SameFacts ==
  \A e \in Rows("DataProvenance") :
    LET r == RenderArgs(db, e)
        logtext == format_provenance_logtext(r)
        flow == format_provenance_mermaid_flow(r)
        lf == Facts(logtext[1], LogtextFixed)
        ff == Facts(flow[1], FlowFixed)
    IN  /\ Len(logtext) = 1 /\ Len(flow) = 1
        /\ logtext # flow
        /\ Len(lf) = 10 /\ Len(ff) = 10
        /\ \A f \in DOMAIN r : Occurrences(lf, r[f]) >= 1 /\ Occurrences(ff, r[f]) >= 1
        /\ \A k \in 1..10 : Occurrences(lf, lf[k]) = Occurrences(ff, lf[k])
        /\ \A k \in 1..10 : Occurrences(lf, ff[k]) = Occurrences(ff, ff[k])

\* An event was rendered as a flow line.
C22_Witness ==
  /\ last.op = "get_provenance" /\ last.outcome = "ok"
  /\ last.args.format = "mermaid_flow"
  /\ Len(db.DataProvenance) >= 1
  /\ Len(last.ret) >= 2
  /\ last.ret[2] = format_provenance_mermaid_flow(RenderArgs(db, 1))[1]

\* The value stored for argument f of the call add_definition(a) in the row
\* of its group that the DataElement de refers to.
StoredValue(de, f) ==
  LET G == CHOOSE H \in Groups : \E c \in DOMAIN H.arg : H.arg[c] = f
      c == CHOOSE k \in DOMAIN G.arg : G.arg[k] = f
  IN  db[G.table][db.DataElement[de][G.fk]][c]

\* C23 as claimed: a field that add_definition is given as the empty string
\* is stored as the empty string, the default of the field being left out.
C23_EmptyStringSupplied ==
  (last.op = "add_definition" /\ last.outcome = "ok") =>
    \A f \in OverrideFields :
      last.args[f] = "" => StoredValue(list_of_dataelements[last.args.id], f) = ""

\* C23: add_definition takes a supplied field as the effective value when
\* the value is not empty; a field supplied as the empty string is treated
\* as a field that is not supplied, and the current default of the field is
\* the effective value.
C23_EmptyStringFallsBack ==
  (last.op = "add_definition" /\ last.outcome = "ok") =>
    \A f \in OverrideFields :
      LET stored == StoredValue(list_of_dataelements[last.args.id], f)
      IN  /\ last.args[f] \in {"", None} => stored = globals[f]
          /\ last.args[f] \notin {"", None} => stored = last.args[f]

\* The call passed owner_name='' and the DataOwner of its element carries
\* the default name.
C23_Witness ==
  /\ last.op = "add_definition" /\ last.outcome = "ok"
  /\ last.args.owner_name = ""
  /\ globals.owner_name = "A"
  /\ StoredValue(list_of_dataelements[last.args.id], "owner_name") = "A"

\* The order in which add_definition persists the four groups.
GroupOrder == <<"owner", "steward", "governance", "script">>
Position(G) == CHOOSE k \in 1..4 : GroupOrder[k] = G.fk

\* The row of group G that the call add_definition(a) asks for.
GroupRow(a, G) == [c \in DOMAIN G.arg |-> Effective(a, G.arg[c])]

\* The get_or_create of group G in the call add_definition(a) fails: some
\* field of the group is given and some field is not.
GroupFails(a, G) == ~GroupAbsent(a, G) /\ ~GroupComplete(a, G)

\* C25: when add_definition fails while it persists its entities, the call
\* ends with the error of the store, the registry is as before the call (a
\* bound id keeps its DataElement, an unbound id stays unbound), no row
\* present before the call is touched, and the rows of the steps before the
\* failing one are in the store: the row of every group persisted before
\* the first failing group and, when no group fails, the rows of all given
\* groups and of the source and destination DataStore.
C25_NoRollback ==
  [][(last'.op = "add_definition" /\ last'.outcome \notin {"ok", "TypeError"}) =>
       LET a == last'.args
           failing == {Position(G) : G \in {H \in Groups : GroupFails(a, H)}}
       IN  /\ last'.outcome = "IntegrityError"
           /\ list_of_dataelements' = list_of_dataelements
           /\ \A t \in Tables :
                /\ Len(db'[t]) >= Len(db[t])
                /\ \A i \in Rows(t) : db'[t][i] = db[t][i]
           /\ db'.DataElement = db.DataElement
           /\ \A G \in Groups :
                (GroupComplete(a, G) /\ \A k \in failing : Position(G) < k) =>
                  \E i \in 1..Len(db'[G.table]) : db'[G.table][i] = GroupRow(a, G)
           /\ failing = {} =>
                /\ \E i \in 1..Len(db'.DataStore) : db'.DataStore[i].name = a.source
                /\ \E i \in 1..Len(db'.DataStore) : db'.DataStore[i].name = a.destination]_vars

\* A call for a bound id failed on its DataElement: the id is still bound to
\* the row it had, and the store holds the rows of the groups and stores.
C25_Witness ==
  /\ last.op = "add_definition" /\ last.outcome = "IntegrityError"
  /\ last.args.description = None /\ last.args.name # None
  /\ list_of_dataelements[last.args.id] \in Rows("DataElement")
  /\ db.DataElement[list_of_dataelements[last.args.id]].description # None
  /\ Len(db.DataStore) = 2 /\ Len(db.DataOwner) >= 1

\* The pieces of a line, as a set.
Pieces(line) == {line[k] : k \in 1..Len(line)}

\* C26 as claimed: a get_provenance call with the fhir format on coordinates
\* with events returns, and the document of every event carries the
\* timestamp of the event and its source and destination references, so
\* that two events that differ in timestamp or in coordinates have
\* different documents.
C26_FhirPerEvent ==
  (last.op = "get_provenance" /\ last.args.format = "fhir"
     /\ EventsInto(last.args.datastore, last.args.variable, last.args.reference.v) # {}
     /\ ~CycleReachable(last.args)) =>
    /\ last.outcome = "ok"
    /\ \A e \in Rows("DataProvenance") :
         LET r == FhirArgs(db, e)
         IN  {r.timestamp, r.source_reference, r.destination_reference}
               \subseteq Pieces(Render(db, e, "fhir").text[1])
    /\ \A e1, e2 \in Rows("DataProvenance") :
         LET r1 == FhirArgs(db, e1)
             r2 == FhirArgs(db, e2)
         IN  (r1.timestamp # r2.timestamp
                \/ r1.source_reference # r2.source_reference
                \/ r1.destination_reference # r2.destination_reference) =>
               Render(db, e1, "fhir").text # Render(db, e2, "fhir").text

\* C27 as claimed: a get_provenance call leaves the tables, the registry and
\* the defaults as they were; its renderers do nothing but return their
\* text, so the call raises no error of a renderer and writes nothing to
\* standard output; a call repeated with the same arguments returns the
\* same text.
C27_ReadOnlyPure ==
  [][last'.op = "get_provenance" =>
       /\ db' = db /\ list_of_dataelements' = list_of_dataelements /\ globals' = globals
       /\ last'.outcome # "TypeError"
       /\ ~last'.printed
       /\ last'.again => (last'.ret = last.ret /\ last'.outcome = last.outcome)]_vars

\* C28 as claimed: a get_provenance call with a format key that is none of
\* the four raises no error and returns the empty text.
C28_UnknownFormatNoError ==
  (last.op = "get_provenance" /\ last.args.format \notin Formats) =>
    (last.outcome = "ok" /\ last.ret = <<>>)

\* C28: a get_provenance call with a format key that is none of the four is
\* not rejected for its key.  It goes through the lineage as a call with a
\* known format does and renders no chunk: when no cycle is reached from
\* the queried coordinates it returns the empty text, also when events
\* match these coordinates; when a cycle is reached it ends with the
\* RecursionError of the traversal, as the logtext call does.
C28_UnknownFormatTraverses ==
  (last.op = "get_provenance" /\ last.args.format \notin Formats) =>
    LET q == last.args
        logtext == GetProvenance(db, q.datastore, q.variable, q.reference, "logtext", 1)
    IN  /\ last.ret = <<>>
        /\ last.outcome = (IF logtext.ok THEN "ok" ELSE logtext.err)
        /\ ~CycleReachable(q) => last.outcome = "ok"
        /\ CycleReachable(q) => last.outcome = "RecursionError"

\* A call with the format "json" on (Y,v,2), into which an event with an
\* upstream event is recorded and no cycle leads, returned the empty text.
C28_Witness ==
  /\ last.op = "get_provenance" /\ last.args.format = "json"
  /\ last.outcome = "ok" /\ last.ret = <<>>
  /\ ~CycleReachable(last.args)
  /\ \E e \in EventsInto(last.args.datastore, last.args.variable, last.args.reference.v) :
       Upstream(e) # {}

\* The sum of the values of a function with a finite domain.
RECURSIVE Sum(_)
Sum(f) ==
  IF DOMAIN f = {} THEN 0
  ELSE LET x == CHOOSE y \in DOMAIN f : TRUE
       IN  f[x] + Sum([y \in DOMAIN f \ {x} |-> f[y]])

\* The number of backward walks that start with event e and end with event
\* target: e itself if it is the target, and the walks that go on through an
\* event into the source coordinates of e.
RECURSIVE WalksFrom(_, _)
WalksFrom(e, target) ==
  (IF e = target THEN 1 ELSE 0) + Sum([u \in Upstream(e) |-> WalksFrom(u, target)])

\* The number of backward walks from the coordinates of query q to event e.
Walks(q, e) ==
  Sum([f \in EventsInto(q.datastore, q.variable, q.reference.v) |-> WalksFrom(f, e)])

\* The number of lines of a chunk in the format.
LinesOfChunk(format) == IF format = "mermaid_w3cprov" THEN 4 ELSE 1

\* C29: get_provenance does not deduplicate events across paths.  On a store
\* without cycle, the text of a call that returns holds one chunk for every
\* backward walk from the queried coordinates: as many chunks as there are
\* walks, and, in logtext, each line as often as there are walks to the
\* events it is the line of.  An event with k walks to it is rendered k
\* times, each time directly followed by its own upstream lineage.
C29_OneChunkPerWalk ==
  (last.op = "get_provenance" /\ last.outcome = "ok" /\ last.args.format \in Formats
     /\ \A e \in Rows("DataProvenance") : ~OnCycle(e)) =>
    LET q == last.args
        text == Body(last.ret)
    IN  /\ Len(text) = LinesOfChunk(q.format)
                         * Sum([e \in Rows("DataProvenance") |-> Walks(q, e)])
        /\ q.format = "logtext" =>
             /\ \A k \in 1..Len(text) :
                  Cardinality({j \in 1..Len(text) : text[j] = text[k]}) =
                    Sum([e \in EventsOfLine(text[k]) |-> Walks(q, e)])
             /\ \A e \in Rows("DataProvenance") :
                  Walks(q, e) > 0 =>
                    Cardinality({k \in 0..(Len(text) - 1) :
                       LET part == DepthFirst(<<e>>, "logtext", <<>>)
                       IN  /\ k + Len(part) <= Len(text)
                           /\ SubSeq(text, k + 1, k + Len(part)) = part}) >= Walks(q, e)

\* Two events that differ only in quality lead from (Y,v,2) into (Z,v,3),
\* one event leads into (Y,v,2): the query on (Z,v,3) returned four lines
\* for the three events, the line of the upstream event twice.
C29_Witness ==
  /\ last.op = "get_provenance" /\ last.outcome = "ok" /\ last.args.format = "logtext"
  /\ last.args.datastore = "Z"
  /\ Len(db.DataProvenance) = 3
  /\ Cardinality(EventsInto("Z", "v", "3")) = 2
  /\ Cardinality(EventsInto("Y", "v", "2")) = 1
  /\ \E e \in EventsInto("Y", "v", "2") : Walks(last.args, e) = 2
  /\ Len(last.ret) = 4
  /\ last.ret[2] = last.ret[4] /\ last.ret[1] # last.ret[2]

\* Every reference held in the registry or in a row leads to a row of the
\* store.
ReferencesResolve ==
  /\ \A i \in Ids :
       list_of_dataelements[i] # NoRef => list_of_dataelements[i] \in Rows("DataElement")
  /\ \A e \in Rows("DataProvenance") :
       db.DataProvenance[e].dataelement \in Rows("DataElement")
  /\ \A i \in Rows("DataElement") :
       LET de == db.DataElement[i]
       IN  /\ de.source \in Rows("DataStore")
           /\ de.destination \in Rows("DataStore")
           /\ de.script # NoRef => de.script \in Rows("Script")
           /\ de.owner # NoRef => de.owner \in Rows("DataOwner")
           /\ de.governance # NoRef => de.governance \in Rows("DataGovernance")
           /\ de.steward # NoRef => de.steward \in Rows("DataSteward")

\* A make_provenance call that returns leaves a row that references the
\* DataElement its id was bound to when it was called, and no call changes
\* the reference of a row that is in the store.
EventsKeepTheirElement ==
  /\ (last'.op = "make_provenance" /\ last'.outcome = "ok") =>
       \E e \in 1..Len(db'.DataProvenance) :
         db'.DataProvenance[e] = EventRow(list_of_dataelements[last'.args.name], last'.args)
  /\ \A e \in Rows("DataProvenance") :
       /\ e \in 1..Len(db'.DataProvenance)
       /\ db'.DataProvenance[e].dataelement = db.DataProvenance[e].dataelement
  /\ \A i \in Rows("DataElement") :
       /\ i \in 1..Len(db'.DataElement)
       /\ db'.DataElement[i] = db.DataElement[i]

\* C30: in every state of a run with one writer, every id bound in the
\* registry maps to a DataElement row of the store, every DataProvenance row
\* references a DataElement row of the store, and every DataElement row
\* references rows of the store for its source and destination and for the
\* script, owner, governance and steward it has.  The DataElement of an
\* event is the one its id was bound to when make_provenance was called,
\* and it stays so when the id is bound to another DataElement later.
C30_ReferentialIntegrity == []ReferencesResolve /\ [][EventsKeepTheirElement]_vars

\* The id p was bound again, to the second DataElement row, after an event
\* was recorded for it: the event still references the first row, which no
\* id is bound to any more.
C30_Witness ==
  /\ last.op = "add_definition" /\ last.outcome = "ok"
  /\ list_of_dataelements[last.args.id] = 2
  /\ \A i \in Ids : list_of_dataelements[i] # 1
  /\ \E e \in Rows("DataProvenance") : db.DataProvenance[e].dataelement = 1
  /\ ReferencesResolve

\* C24: when a new instance is opened on the store a first instance has
\* filled and the calls of the first instance (default setters,
\* add_definition, make_provenance with the same event tuples) are made again
\* in the same order, no call adds a row to any table, and after the last
\* call every id is bound to the DataElement row it was bound to at the end
\* of the first run.
C24_ReplaySafe ==
  journal.pass = 2 =>
    /\ \A t \in Tables : Len(db[t]) = Len(journal.first.db[t])
    /\ db = journal.first.db
    /\ journal.pc > Len(journal.calls) =>
         list_of_dataelements = journal.first.list_of_dataelements

\* The first run set the owner, defined p with the default owner, recorded
\* an event for p and defined p again with its own owner; the second run
\* has made these four calls again and p is bound to the second row.
C24_Witness ==
  /\ journal.pass = 2 /\ journal.pc > Len(journal.calls)
  /\ Len(journal.calls) = 4
  /\ journal.calls[1].op = "add_owner_definition"
  /\ journal.calls[3].op = "make_provenance"
  /\ last.op = "add_definition" /\ last.outcome = "ok"
  /\ Len(db.DataElement) = 2 /\ Len(db.DataProvenance) = 1
  /\ list_of_dataelements["p"] = 2
  /\ db.DataProvenance[1].dataelement = 1

====
